---- MODULE Spec2Model ----
(***************************************************************************)
(* Call processing pipeline of the call quality analyser.                  *)
(*                                                                         *)
(* The state is the Call collection (db), the in-memory mongoose document  *)
(* and the locals of each processCallAsync run, the position of each run   *)
(* at its pending await (pc), the events emitted to each call room and the *)
(* liveness of the server process.  One action per await-delimited segment *)
(* of processCallAsync: an action performs the awaited operation and the   *)
(* synchronous code that follows it up to the next await.                  *)
(*                                                                         *)
(* The handlers uploadCall, updateCall and deleteCall are modelled the     *)
(* same way (updateDoc, deleting, response, requests); the read handlers   *)
(* getCall, getCallAnalysis and getCoachingPlan answer from the record     *)
(* Call.findById returned.  rooms holds the socket.io rooms each client    *)
(* socket has joined.  The scoring engine analyzeCall is a pure function   *)
(* of the transcript and of the answers of the two external models;        *)
(* SpecAnalyze applies it to every transcript of at most MaxTokens words.  *)
(* SpecCoaching applies generateCoachingPlan to every overallScore.        *)
(*                                                                         *)
(* Specifications: Spec (runs and re-invoked runs on one call), SpecHttp   *)
(* (one run and the writing handlers), SpecUpdate (runs, re-invoked runs   *)
(* and updateCall), SpecTwo (the runs of two calls), SpecRead (one run and *)
(* the read handlers), SpecSocket (one run and the socket rooms),          *)
(* SpecClient (one run, read handlers and socket rooms), SpecAnalyze,      *)
(* SpecCoaching.                                                           *)
(***************************************************************************)
EXTENDS Integers, Sequences, FiniteSets, TLC

\* ------------------------------------------------------------------ bounds
MaxRuns == 2            \* invocations of processCallAsync per call id
MaxFaults == 1          \* store operations that fail for an external reason
MaxRequests == 1        \* HTTP requests served besides the accepted uploads
MaxTokens == 3          \* words of a transcript handed to analyzeCall
MaxJoins == 1           \* 'join-call-room' events the server handles

\* ------------------------------------------------------------- value sets
CallIds == {"c1", "c2"}

\* socket.io clients: the socket of the user who uploaded the calls and the
\* socket of another user with role agent
Sockets == {"owner", "other"}

\* callSchema.status enum, in pipeline order
StatusEnum ==
  <<"uploaded", "transcribing", "transcribed", "analyzing", "analyzed",
    "generating-coaching", "completed", "error">>

\* callSchema.processingHistory.step enum
StepEnum == {"upload", "transcribe", "analyze", "coaching"}

\* callSchema.processingHistory.status enum
StepStatusEnum == {"started", "completed", "failed"}

\* response.data.text of the speech-to-text service: two usable texts, the
\* empty text, and a response without a text field
NoText == "<undefined>"
Texts == {"hello thank you for calling", "your order is delayed", "", NoText}

\* overallScore values the scoring engine returns for a usable text
Scores == {64, 82}

Absent == "<absent>"

ErrTranscription == "Transcription failed: Service unavailable"
ErrAnalysis == "Analysis failed"
ErrValidation == "ValidationError"
ErrStore == "MongoNetworkError"
ErrNotFound == "DocumentNotFoundError"
NoError == "<none>"

\* ------------------------------------------------------------------ state
VARIABLES
  serverUp,   \* the node process is running
  db,         \* Call collection: call id -> persisted record
  pc,         \* call id -> pending await of its processCallAsync run
  doc,        \* call id -> in-memory mongoose document (`call`)
  loc,        \* call id -> locals of the run
  emitted,    \* call id -> events emitted to room call-<id>
  runs,       \* call id -> number of processCallAsync invocations
  writes,     \* call id -> store writes issued by the current run
  faults,     \* store operations failed so far for an external reason
  updateDoc,  \* call id -> document of the updateCall request in progress
  deleting,   \* call id -> a deleteCall request has found the call
  response,   \* the HTTP response sent last
  requests,   \* HTTP requests served besides the accepted uploads
  scoring,    \* transcript, service answers and result of one analyzeCall
  coaching,   \* analysis, enrichment outcome and result of one
              \* generateCoachingPlan
  rooms       \* socket -> the rooms it has joined, each with the number of
              \* events emitted to the room before the join

requestVars == <<updateDoc, deleting, response, requests>>

vars ==
  <<serverUp, db, pc, doc, loc, emitted, runs, writes, faults,
    updateDoc, deleting, response, requests, scoring, coaching, rooms>>

\* ------------------------------------------------- records and documents
\* the error sub-document default: only retryCount has a schema default
NoErrorField ==
  [message |-> Absent, code |-> Absent, step |-> Absent,
   retryCount |-> 0, hasRetryCount |-> TRUE]

\* the coachingPlan sub-document default
NoCoachingPlan ==
  [generated |-> FALSE, feedback |-> Absent, recommendations |-> <<>>,
   resources |-> <<>>, quiz |-> <<>>,
   completionCriteria |-> "Complete all recommendations and pass the quiz"]

\* the metadata sub-document of a new call: priority has the schema default
PriorityDefault == "medium"
NoMetadata == [notes |-> Absent, priority |-> PriorityDefault]

\* hydration gives a path without stored value its schema default, in memory
\* only
WithDefaults(metadata) ==
  [metadata EXCEPT !.priority = IF @ = Absent THEN PriorityDefault ELSE @]

\* a call id for which no record is stored
NoRecord ==
  [exists |-> FALSE, status |-> Absent, transcript |-> Absent,
   analysis |-> <<>>, coachingPlan |-> NoCoachingPlan,
   processingHistory |-> <<>>, error |-> NoErrorField, performance |-> {},
   metadata |-> NoMetadata]

\* Call.create({user, fileName, ...}): every other path takes its default
NewCall ==
  [exists |-> TRUE, status |-> StatusEnum[1], transcript |-> Absent,
   analysis |-> <<>>, coachingPlan |-> NoCoachingPlan,
   processingHistory |-> <<>>, error |-> NoErrorField, performance |-> {},
   metadata |-> NoMetadata]

\* the document when no `call` is bound
NoDoc ==
  [loaded |-> FALSE, status |-> Absent, transcript |-> Absent,
   analysis |-> <<>>, coachingPlan |-> NoCoachingPlan,
   processingHistory |-> <<>>, error |-> NoErrorField,
   performance |-> {}, metadata |-> NoMetadata, dirty |-> {}, pushed |-> 0]

\* Call.findById: hydrate an in-memory document from the stored record
Hydrate(rec) ==
  [loaded |-> TRUE, status |-> rec.status, transcript |-> rec.transcript,
   analysis |-> rec.analysis, coachingPlan |-> rec.coachingPlan,
   processingHistory |-> rec.processingHistory,
   error |-> rec.error, performance |-> rec.performance,
   metadata |-> WithDefaults(rec.metadata), dirty |-> {}, pushed |-> 0]

\* locals of a run: transcription.text, analysis, simplifiedCoachingPlan, the
\* caught error, how the run ended; startStatus and prevFailed record the
\* persisted status at invocation and whether the previous run on the same
\* call ended in its catch block
NoLocals ==
  [transcription |-> Absent, analysis |-> <<>>, coachingPlan |-> NoCoachingPlan,
   error |-> NoError, result |-> "pending",
   startStatus |-> StatusEnum[1], prevFailed |-> FALSE]

\* call.addProcessingStep(step, status, message, duration, error) up to its
\* final this.save(): push the entry and, for a failed step, replace
\* this.error by an object that has no retryCount
AddProcessingStep(d, step, status, err) ==
  LET pushedDoc ==
        [d EXCEPT !.processingHistory =
                     Append(@, [step |-> step, status |-> status, error |-> err]),
                  !.pushed = @ + 1]
  IN IF status = "failed"
       THEN [pushedDoc EXCEPT
               !.error = [message |-> err, code |-> "PROCESSING_ERROR",
                          step |-> step, retryCount |-> 0,
                          hasRetryCount |-> FALSE],
               !.dirty = @ \cup {"error"}]
       ELSE pushedDoc

\* (call.error?.retryCount || 0) + 1
NextRetryCount(e) == IF e.hasRetryCount THEN e.retryCount + 1 ELSE 1

\* the entries pushed since the last save
PushedEntries(d) ==
  SubSeq(d.processingHistory,
         Len(d.processingHistory) - d.pushed + 1, Len(d.processingHistory))

\* schema validation run by save(): enum of every pushed history entry,
\* status enum, and Number/min/max of a modified analysis
ValidDoc(d) ==
  /\ \A i \in 1..Len(PushedEntries(d)) :
        /\ PushedEntries(d)[i].step \in StepEnum
        /\ PushedEntries(d)[i].status \in StepStatusEnum
  /\ \E i \in 1..Len(StatusEnum) : StatusEnum[i] = d.status
  /\ ("analysis" \in d.dirty /\ d.analysis # <<>>) =>
        /\ ~d.analysis[1].nan
        /\ d.analysis[1].overallScore \in 0..100

\* a save that sends the whole in-memory processingHistory instead of the
\* entries pushed since the last save
SaveDocFullHistory(rec, d) ==
  [rec EXCEPT
     !.status = IF "status" \in d.dirty THEN d.status ELSE @,
     !.transcript = IF "transcript" \in d.dirty THEN d.transcript ELSE @,
     !.analysis = IF "analysis" \in d.dirty THEN d.analysis ELSE @,
     !.error = IF "error" \in d.dirty THEN d.error ELSE @,
     !.performance = IF "performance" \in d.dirty THEN d.performance ELSE @,
     !.metadata = IF "metadata" \in d.dirty THEN d.metadata ELSE @,
     !.processingHistory = @ \o d.processingHistory]

\* a save that writes every path of the in-memory document, modified or not
SaveDocWholeDocument(rec, d) ==
  [rec EXCEPT
     !.status = d.status,
     !.transcript = d.transcript,
     !.analysis = d.analysis,
     !.coachingPlan = d.coachingPlan,
     !.error = d.error,
     !.performance = d.performance,
     !.metadata = d.metadata,
     !.processingHistory = @ \o PushedEntries(d)]

\* document.save(): $set of the modified paths, $push of the pushed entries
SaveDoc(rec, d) ==
  [rec EXCEPT
     !.status = IF "status" \in d.dirty THEN d.status ELSE @,
     !.transcript = IF "transcript" \in d.dirty THEN d.transcript ELSE @,
     !.analysis = IF "analysis" \in d.dirty THEN d.analysis ELSE @,
     !.coachingPlan = IF "coachingPlan" \in d.dirty THEN d.coachingPlan ELSE @,
     !.error = IF "error" \in d.dirty THEN d.error ELSE @,
     !.performance = IF "performance" \in d.dirty THEN d.performance ELSE @,
     !.metadata = IF "metadata" \in d.dirty THEN d.metadata ELSE @,
     !.processingHistory = @ \o PushedEntries(d)]

\* the document after a successful save
Persisted(d) == [d EXCEPT !.dirty = {}, !.pushed = 0]

\* what a save sends to the store
SaveWrite(d) ==
  [op |-> "save",
   paths |-> d.dirty \cup (IF d.pushed > 0 THEN {"processingHistory"} ELSE {}),
   status |-> IF "status" \in d.dirty THEN d.status ELSE Absent]

\* JSON.stringify / JSON.parse of a list of plain objects
JSONStringify(list) == <<"json", list>>
JSONParse(text) == text[2]

\* ---------------------------------------------------------- scoring, plan
\* analyzeCall(transcription.text) as the pipeline sees it: it throws when
\* the text is undefined (transcript.split), yields NaN scores when the text
\* has no sentence, and a score that depends on the external services
\* otherwise
AnalyzeThrows(text) == text = NoText

AnalysisResults(text) ==
  IF text = ""
    THEN {[overallScore |-> 0, nan |-> TRUE]}
    ELSE {[overallScore |-> s, nan |-> FALSE] : s \in Scores}

\* generateCoachingPlanFromAnalysis(analysis, transcript)
GenerateCoachingPlanFromAnalysis(analysis) ==
  LET overallScore ==
        IF analysis.nan \/ analysis.overallScore = 0
          THEN 75 ELSE analysis.overallScore
  IN [feedback |->
        IF overallScore >= 85
          THEN "Excellent performance! Keep up the great work."
          ELSE IF overallScore >= 70
            THEN "Good performance with specific areas for improvement."
            ELSE "Performance needs improvement. Focus on the recommendations below.",
      recommendations |->
        <<"Improve Active Listening", "Enhance Greeting Skills",
          "Better Issue Resolution">>,
      resources |->
        <<"Active Listening Techniques", "Customer Service Best Practices">>,
      quiz |->
        <<"What is the most important aspect of call opening?",
          "How should you handle an angry customer?">>,
      completionCriteria |->
        "Complete all recommendations and score 80% or higher on the quiz"]

\* simplifiedCoachingPlan: the lists are stored as JSON text
SimplifiedCoachingPlan(plan) ==
  [generated |-> TRUE, feedback |-> plan.feedback,
   recommendations |-> JSONStringify(plan.recommendations),
   resources |-> JSONStringify(plan.resources),
   quiz |-> JSONStringify(plan.quiz),
   completionCriteria |-> plan.completionCriteria]

\* a JavaScript number: an integer value or NaN
NaN == [nan |-> TRUE, v |-> 0]
Num(v) == [nan |-> FALSE, v |-> v]

\* the analysis object before analyzeCall has returned
NoAnalysis == [overallScore |-> NaN, metrics |-> <<>>, feedback |-> <<>>]

\* the scoring state outside a call of analyzeCall
NoScoring ==
  [phase |-> "off", transcript |-> <<>>, sentiment |-> <<>>,
   toxicity |-> <<>>, result |-> NoAnalysis]

\* outcome of the axios.post of generateCoachingPlan: a response, an error
\* response or network error, no response within the 15 s timeout
Enrichments == {"ok", "error", "timeout"}

\* the coaching state outside a call of generateCoachingPlan
NoCoaching ==
  [phase |-> "off", analysis |-> <<>>, enrichment |-> Absent,
   raised |-> FALSE, plan |-> <<>>]

\* Array.isArray of a list
IsArray(list) == DOMAIN list = 1..Len(list)

\* a generateCoachingPlan that returns the lists of the enrichment response,
\* which has none, when the request succeeds
GenerateCoachingPlanEnriched(analysis, enrichment) ==
  LET structured == GenerateCoachingPlanFromAnalysis(analysis)
      plan ==
        IF enrichment = "ok"
          THEN [structured EXCEPT !.recommendations = <<>>, !.resources = <<>>,
                                  !.quiz = <<>>]
          ELSE structured
  IN [raised |-> FALSE, plan |-> plan]

\* generateCoachingPlan(analysis, transcript): the try block returns the
\* structured plan after the enrichment request, the catch block returns it
\* when the request throws; generateCoachingPlanFromAnalysis throws when one
\* of the three lists is not an array
GenerateCoachingPlanResult(analysis, enrichment) ==
  LET plan ==
        IF enrichment = "ok"
          THEN GenerateCoachingPlanFromAnalysis(analysis)
          ELSE GenerateCoachingPlanFromAnalysis(analysis)
  IN [raised |-> ~(IsArray(plan.resources) /\ IsArray(plan.recommendations)
                     /\ IsArray(plan.quiz)),
      plan |-> plan]

\* ------------------------------------------------------------ small helpers
Set(f, c, v) == [f EXCEPT ![c] = v]

\* assignment to a document path: mongoose marks the path modified only
\* when the value changes
AssignStatus(d, v) ==
  IF d.status = v THEN d ELSE [d EXCEPT !.status = v, !.dirty = @ \cup {"status"}]

AssignTranscript(d, v) ==
  IF d.transcript = v THEN d
    ELSE [d EXCEPT !.transcript = v, !.dirty = @ \cup {"transcript"}]

AssignAnalysis(d, v) ==
  IF d.analysis = v THEN d
    ELSE [d EXCEPT !.analysis = v, !.dirty = @ \cup {"analysis"}]

AssignPerformance(d, field) ==
  [d EXCEPT !.performance = @ \cup {field}, !.dirty = @ \cup {"performance"}]

\* global.io.to(`call-${callId}`).emit('call-status-update', {...})
StatusUpdate(status, progress, err) ==
  [status |-> status, progress |-> progress, error |-> err]

\* what a response discloses of a call
NoData == [transcript |-> Absent, analysis |-> <<>>, coachingPlan |-> <<>>]

\* res.status(code).json(...) of a handler that sends nothing of the call's
\* contents; status is data.status of the upload response, the status field
\* of the 400 of a read handler, and Absent elsewhere
Response(handler, c, code, status) ==
  [handler |-> handler, call |-> c, code |-> code, status |-> status,
   user |-> Absent, data |-> NoData]

\* no response sent yet
NoResponse == Response(Absent, Absent, 0, Absent)

InFlight ==
  {"find", "hist_upload", "save_transcribing", "hist_transcribe_started",
   "transcribe", "save_transcribed", "hist_transcribe_completed",
   "save_analyzing", "hist_analyze_started", "analyze", "save_analyzed",
   "hist_analyze_completed", "hist_coaching_started", "coach",
   "update_coaching", "hist_coaching_completed", "update_completed",
   "catch_find", "catch_hist"}

Ended == {"done", "rejected", "killed"}

\* ------------------------------------------------------------------- Init
\* the server has started: no call, no run, no request
InitServer ==
  /\ serverUp = TRUE
  /\ db = [c \in CallIds |-> NoRecord]
  /\ pc = [c \in CallIds |-> "idle"]
  /\ doc = [c \in CallIds |-> NoDoc]
  /\ loc = [c \in CallIds |-> NoLocals]
  /\ emitted = [c \in CallIds |-> <<>>]
  /\ runs = [c \in CallIds |-> 0]
  /\ writes = [c \in CallIds |-> <<>>]
  /\ faults = 0
  /\ updateDoc = [c \in CallIds |-> NoDoc]
  /\ deleting = [c \in CallIds |-> FALSE]
  /\ response = NoResponse
  /\ requests = 0
  /\ rooms = [s \in Sockets |-> {}]

Init ==
  /\ InitServer
  /\ scoring = NoScoring
  /\ coaching = NoCoaching

\* ------------------------------------------------ control-flow fragments
\* an exception inside the try block: the catch block starts and issues
\* its own Call.findById
Throw(c, msg) ==
  /\ pc' = Set(pc, c, "catch_find")
  /\ loc' = Set(loc, c, [loc[c] EXCEPT !.error = msg])
  /\ doc' = Set(doc, c, NoDoc)
  /\ UNCHANGED <<serverUp, db, emitted, runs, writes>>

\* a store operation of the try block fails for an external reason
StoreFault(c) ==
  /\ faults < MaxFaults
  /\ faults' = faults + 1
  /\ Throw(c, ErrStore)

\* an exception inside the catch block: the promise of processCallAsync
\* rejects, nobody handles it, and the unhandledRejection handler exits the
\* process, which ends every other run in flight
Reject(c) ==
  /\ pc' = [d \in CallIds |->
              IF d = c THEN "rejected"
              ELSE IF pc[d] \in InFlight THEN "killed" ELSE pc[d]]
  /\ loc' = Set(loc, c, [loc[c] EXCEPT !.result = "rejected"])
  /\ serverUp' = FALSE
  /\ UNCHANGED <<db, doc, emitted, runs, writes>>

\* a save that is not awaited: the code after it runs before the write
SaveStepNoWait(c, from, to, nextDoc, events) ==
  /\ pc[c] = from
  /\ doc' = Set(doc, c, nextDoc)
  /\ emitted' = Set(emitted, c, emitted[c] \o events)
  /\ pc' = Set(pc, c, to)
  /\ UNCHANGED <<serverUp, db, loc, runs, writes, faults>>
  /\ UNCHANGED <<requestVars, scoring, coaching, rooms>>

\* `await call.save()` (also the save ending addProcessingStep) at position
\* from, followed by the synchronous code up to the next await: nextDoc is
\* the document after that code, events what it emits
SaveStep(c, from, to, nextDoc, events) ==
  /\ pc[c] = from
  /\ \/ /\ IF db[c].exists /\ ValidDoc(doc[c])
             THEN /\ db' = Set(db, c, SaveDoc(db[c], doc[c]))
                  /\ writes' = Set(writes, c, Append(writes[c], SaveWrite(doc[c])))
                  /\ doc' = Set(doc, c, nextDoc)
                  /\ emitted' = Set(emitted, c, emitted[c] \o events)
                  /\ pc' = Set(pc, c, to)
                  /\ UNCHANGED <<serverUp, loc, runs>>
             ELSE Throw(c, IF db[c].exists THEN ErrValidation ELSE ErrNotFound)
        /\ UNCHANGED faults
     \/ StoreFault(c)
  /\ UNCHANGED <<requestVars, scoring, coaching, rooms>>

\* ---------------------------------------------------------------- actions
\* server.js startServer: the process is (re)started; the requests the
\* previous process was serving are gone
StartServer ==
  /\ ~serverUp
  /\ serverUp' = TRUE
  /\ updateDoc' = [c \in CallIds |-> NoDoc]
  /\ deleting' = [c \in CallIds |-> FALSE]
  /\ rooms' = [s \in Sockets |-> {}]
  /\ UNCHANGED <<db, pc, doc, loc, emitted, runs, writes, faults, response,
                 requests, scoring, coaching>>

\* an uploadCall that creates the call and answers without calling
\* processCallAsync
UploadCallNoRun(c) ==
  /\ serverUp
  /\ pc[c] = "idle"
  /\ ~db[c].exists
  /\ db' = Set(db, c, NewCall)
  /\ response' = Response("uploadCall", c, 201, NewCall.status)
  /\ UNCHANGED <<serverUp, pc, runs, loc, doc, emitted, writes, faults,
                 updateDoc, deleting, requests, scoring, coaching, rooms>>

\* uploadCall with a file: Call.create, then processCallAsync(call._id) is
\* called without await; it runs up to its first await (Call.findById), and
\* the handler answers 201 with the status of the document it created
UploadCall(c) ==
  /\ serverUp
  /\ pc[c] = "idle"
  /\ ~db[c].exists
  /\ db' = Set(db, c, NewCall)
  /\ pc' = Set(pc, c, "find")
  /\ runs' = Set(runs, c, 1)
  /\ loc' = Set(loc, c, NoLocals)
  /\ response' = Response("uploadCall", c, 201, NewCall.status)
  /\ UNCHANGED <<serverUp, doc, emitted, writes, faults, updateDoc, deleting,
                 requests, scoring, coaching, rooms>>

\* a fresh invocation of processCallAsync on the id of an existing call whose
\* previous run has ended (the manual retry)
ReInvoke(c) ==
  /\ serverUp
  /\ pc[c] \in Ended
  /\ runs[c] < MaxRuns
  /\ pc' = Set(pc, c, "find")
  /\ runs' = Set(runs, c, runs[c] + 1)
  /\ loc' = Set(loc, c, [NoLocals EXCEPT
                           !.startStatus = db[c].status,
                           !.prevFailed = loc[c].error # NoError])
  /\ doc' = Set(doc, c, NoDoc)
  /\ writes' = Set(writes, c, <<>>)
  /\ UNCHANGED <<serverUp, db, emitted, faults>>
  /\ UNCHANGED <<requestVars, scoring, coaching, rooms>>

\* const call = await Call.findById(callId); then addProcessingStep('upload',
\* 'completed') is issued
FindCall(c) ==
  /\ pc[c] = "find"
  /\ \/ /\ IF db[c].exists
             THEN /\ doc' = Set(doc, c, AddProcessingStep(Hydrate(db[c]),
                                          "upload", "completed", NoError))
                  /\ pc' = Set(pc, c, "hist_upload")
                  /\ UNCHANGED loc
             ELSE /\ pc' = Set(pc, c, "done")
                  /\ loc' = Set(loc, c, [loc[c] EXCEPT !.result = "notfound"])
                  /\ UNCHANGED doc
        /\ UNCHANGED <<serverUp, db, emitted, runs, writes, faults>>
     \/ StoreFault(c)
  /\ UNCHANGED <<requestVars, scoring, coaching, rooms>>

\* save of the upload entry; emit 'uploaded'; call.status = 'transcribing'
HistUpload(c) ==
  SaveStep(c, "hist_upload", "save_transcribing",
           AssignStatus(Persisted(doc[c]), "transcribing"),
           <<StatusUpdate("uploaded", <<>>, NoError)>>)

\* save of status transcribing; addProcessingStep('transcribe', 'started')
SaveTranscribing(c) ==
  SaveStep(c, "save_transcribing", "hist_transcribe_started",
           AddProcessingStep(Persisted(doc[c]), "transcribe", "started", NoError),
           <<>>)

\* save of the started entry; emit 'transcribing'; transcribeAudio is called
HistTranscribeStarted(c) ==
  SaveStep(c, "hist_transcribe_started", "transcribe",
           Persisted(doc[c]),
           <<StatusUpdate("transcribing", <<33>>, NoError)>>)

\* await openaiService.transcribeAudio(call.filePath), then the assignments
\* of lines 452-455
TranscribeAudio(c) ==
  /\ pc[c] = "transcribe"
  /\ \/ \E text \in Texts :
          /\ loc' = Set(loc, c, [loc[c] EXCEPT !.transcription = text])
          /\ doc' = Set(doc, c,
                AssignPerformance(
                  AssignStatus(AssignTranscript(doc[c], text), "transcribed"),
                  "transcriptionTime"))
          /\ pc' = Set(pc, c, "save_transcribed")
          /\ UNCHANGED <<serverUp, db, emitted, runs, writes, faults>>
     \/ /\ Throw(c, ErrTranscription)
        /\ UNCHANGED faults
  /\ UNCHANGED <<requestVars, scoring, coaching, rooms>>

\* save of the transcript; addProcessingStep('transcribe', 'completed')
SaveTranscribed(c) ==
  SaveStep(c, "save_transcribed", "hist_transcribe_completed",
           AddProcessingStep(Persisted(doc[c]), "transcribe", "completed", NoError),
           <<>>)

\* save of the completed entry; emit 'transcribed'; call.status = 'analyzing'
HistTranscribeCompleted(c) ==
  SaveStep(c, "hist_transcribe_completed", "save_analyzing",
           AssignStatus(Persisted(doc[c]), "analyzing"),
           <<StatusUpdate("transcribed", <<66>>, NoError)>>)

\* save of status analyzing; addProcessingStep('analyze', 'started')
SaveAnalyzing(c) ==
  SaveStep(c, "save_analyzing", "hist_analyze_started",
           AddProcessingStep(Persisted(doc[c]), "analyze", "started", NoError),
           <<>>)

\* save of the started entry; emit 'analyzing'; analyzeCall is called
HistAnalyzeStarted(c) ==
  SaveStep(c, "hist_analyze_started", "analyze",
           Persisted(doc[c]),
           <<StatusUpdate("analyzing", <<80>>, NoError)>>)

\* await openaiService.analyzeCall(transcription.text), then the assignments
\* of lines 490-492
AnalyzeCall(c) ==
  /\ pc[c] = "analyze"
  /\ UNCHANGED faults
  /\ IF AnalyzeThrows(loc[c].transcription)
       THEN Throw(c, ErrAnalysis)
       ELSE \E a \in AnalysisResults(loc[c].transcription) :
              /\ loc' = Set(loc, c, [loc[c] EXCEPT !.analysis = <<a>>])
              /\ doc' = Set(doc, c,
                    AssignPerformance(
                      AssignStatus(AssignAnalysis(doc[c], <<a>>), "analyzed"),
                      "analysisTime"))
              /\ pc' = Set(pc, c, "save_analyzed")
              /\ UNCHANGED <<serverUp, db, emitted, runs, writes>>
  /\ UNCHANGED <<requestVars, scoring, coaching, rooms>>

\* save of the analysis; addProcessingStep('analyze', 'completed')
SaveAnalyzed(c) ==
  SaveStep(c, "save_analyzed", "hist_analyze_completed",
           AddProcessingStep(Persisted(doc[c]), "analyze", "completed", NoError),
           <<>>)

\* save of the completed entry; emit 'analyzed';
\* addProcessingStep('coaching', 'started')
HistAnalyzeCompleted(c) ==
  SaveStep(c, "hist_analyze_completed", "hist_coaching_started",
           AddProcessingStep(Persisted(doc[c]), "coaching", "started", NoError),
           <<StatusUpdate("analyzed", <<90>>, NoError)>>)

\* save of the started entry; emit 'generating-coaching';
\* generateCoachingPlan is called
HistCoachingStarted(c) ==
  SaveStep(c, "hist_coaching_started", "coach",
           Persisted(doc[c]),
           <<StatusUpdate("generating-coaching", <<95>>, NoError)>>)

\* await openaiService.generateCoachingPlan(analysis, transcription.text):
\* whatever the enrichment request does, the plan is the structured one;
\* then Call.updateOne of the coachingPlan paths is issued
GenerateCoachingPlan(c) ==
  /\ pc[c] = "coach"
  /\ UNCHANGED faults
  /\ \E enrichment \in Enrichments :
        LET returned == GenerateCoachingPlanResult(loc[c].analysis[1], enrichment)
        IN IF returned.raised
             THEN Throw(c, "Invalid coaching plan structure")
             ELSE /\ loc' = Set(loc, c, [loc[c] EXCEPT !.coachingPlan =
                           SimplifiedCoachingPlan(returned.plan)])
                  /\ pc' = Set(pc, c, "update_coaching")
                  /\ UNCHANGED <<serverUp, db, doc, emitted, runs, writes>>
  /\ UNCHANGED <<requestVars, scoring, coaching, rooms>>

\* Call.updateOne({_id}, {$set: coachingPlan.*}) writes the record directly;
\* then addProcessingStep('coaching', 'completed')
UpdateCoaching(c) ==
  /\ pc[c] = "update_coaching"
  /\ \/ /\ db' = Set(db, c,
                 IF db[c].exists
                   THEN [db[c] EXCEPT !.coachingPlan = loc[c].coachingPlan]
                   ELSE db[c])
        /\ writes' = Set(writes, c, Append(writes[c],
                 [op |-> "updateOne", paths |-> {"coachingPlan"},
                  status |-> Absent]))
        /\ doc' = Set(doc, c,
                 AddProcessingStep(doc[c], "coaching", "completed", NoError))
        /\ pc' = Set(pc, c, "hist_coaching_completed")
        /\ UNCHANGED <<serverUp, loc, emitted, runs, faults>>
     \/ StoreFault(c)
  /\ UNCHANGED <<requestVars, scoring, coaching, rooms>>

\* save of the completed entry; the final Call.updateOne is issued
HistCoachingCompleted(c) ==
  SaveStep(c, "hist_coaching_completed", "update_completed",
           Persisted(doc[c]), <<>>)

\* Call.updateOne({_id}, {$set: {status: 'completed', performance...}});
\* emit 'completed'; the run ends
UpdateCompleted(c) ==
  /\ pc[c] = "update_completed"
  /\ \/ /\ db' = Set(db, c,
                 IF db[c].exists
                   THEN [db[c] EXCEPT
                           !.status = "completed",
                           !.performance = @ \cup {"processingTime", "coachingTime"}]
                   ELSE db[c])
        /\ writes' = Set(writes, c, Append(writes[c],
                 [op |-> "updateOne", paths |-> {"status", "performance"},
                  status |-> "completed"]))
        /\ emitted' = Set(emitted, c,
                 Append(emitted[c], StatusUpdate("completed", <<100>>, NoError)))
        /\ pc' = Set(pc, c, "done")
        /\ loc' = Set(loc, c, [loc[c] EXCEPT !.result = "completed"])
        /\ doc' = Set(doc, c, NoDoc)
        /\ UNCHANGED <<serverUp, runs, faults>>
     \/ StoreFault(c)
  /\ UNCHANGED <<requestVars, scoring, coaching, rooms>>

\* catch block: const call = await Call.findById(callId); when the call
\* exists addProcessingStep('error', 'failed', error.message, 0, error) is
\* issued, otherwise only the error event is emitted
CatchFind(c) ==
  /\ pc[c] = "catch_find"
  /\ \/ /\ IF db[c].exists
             THEN /\ doc' = Set(doc, c, AddProcessingStep(Hydrate(db[c]),
                                          "error", "failed", loc[c].error))
                  /\ pc' = Set(pc, c, "catch_hist")
                  /\ UNCHANGED <<loc, emitted>>
             ELSE /\ emitted' = Set(emitted, c, Append(emitted[c],
                                   StatusUpdate("error", <<>>, loc[c].error)))
                  /\ pc' = Set(pc, c, "done")
                  /\ loc' = Set(loc, c, [loc[c] EXCEPT !.result = "failed"])
                  /\ UNCHANGED doc
        /\ UNCHANGED <<serverUp, db, runs, writes, faults>>
     \/ /\ faults < MaxFaults
        /\ faults' = faults + 1
        /\ Reject(c)
  /\ UNCHANGED <<requestVars, scoring, coaching, rooms>>

\* the document the catch block saves at line 606
FailedDoc(d, msg) ==
  [AssignStatus(d, "error") EXCEPT
     !.error = [message |-> msg, code |-> "PROCESSING_ERROR",
                step |-> "processing",
                retryCount |-> NextRetryCount(d.error),
                hasRetryCount |-> TRUE],
     !.dirty = @ \cup {"error"}]

\* catch block: the save ending addProcessingStep('error', 'failed'); when it
\* resolves, lines 598-606 set status and error and save again, and the
\* error event is emitted; when it throws, processCallAsync rejects
CatchHist(c) ==
  /\ pc[c] = "catch_hist"
  /\ \/ /\ UNCHANGED faults
        /\ IF ValidDoc(doc[c]) /\ db[c].exists
             THEN /\ db' = Set(db, c,
                        SaveDoc(SaveDoc(db[c], doc[c]),
                                FailedDoc(Persisted(doc[c]), loc[c].error)))
                  /\ writes' = Set(writes, c, writes[c] \o
                        <<SaveWrite(doc[c]),
                          SaveWrite(FailedDoc(Persisted(doc[c]), loc[c].error))>>)
                  /\ emitted' = Set(emitted, c, Append(emitted[c],
                                   StatusUpdate("error", <<>>, loc[c].error)))
                  /\ pc' = Set(pc, c, "done")
                  /\ loc' = Set(loc, c, [loc[c] EXCEPT !.result = "failed"])
                  /\ doc' = Set(doc, c, NoDoc)
                  /\ UNCHANGED <<serverUp, runs>>
             ELSE Reject(c)
     \/ /\ faults < MaxFaults
        /\ faults' = faults + 1
        /\ Reject(c)
  /\ UNCHANGED <<requestVars, scoring, coaching, rooms>>

\* ---------------------------------------------------------- HTTP handlers
\* req.body.notes of updateCall, possibly missing
Notes == {Absent, "follow up"}

\* an assignment of call.metadata that marks every path of the document
\* modified
AssignMetadataMarkAll(d, notes) ==
  [d EXCEPT
     !.metadata = [notes |-> IF notes # Absent THEN notes ELSE d.metadata.notes,
                   priority |-> Absent],
     !.dirty = {"metadata", "status", "transcript", "analysis"}]

\* call.metadata = { customerId, callType, tags, notes: notes ||
\* call.metadata.notes }: the nested object is replaced by one that has no
\* priority, and the path is marked modified unless the value is the same
AssignMetadata(d, notes) ==
  LET metadata ==
        [notes |-> IF notes # Absent THEN notes ELSE d.metadata.notes,
         priority |-> Absent]
  IN IF d.metadata = metadata THEN d
       ELSE [d EXCEPT !.metadata = metadata, !.dirty = @ \cup {"metadata"}]

\* an uploadCall without req.file that answers 400 and goes on to create the
\* call
UploadNoFileCreates ==
  /\ serverUp
  /\ requests < MaxRequests
  /\ requests' = requests + 1
  /\ response' = Response("uploadCall", Absent, 400, Absent)
  /\ \E c \in CallIds :
        /\ ~db[c].exists
        /\ db' = Set(db, c, NewCall)
  /\ UNCHANGED <<serverUp, pc, doc, loc, emitted, runs, writes, faults,
                 updateDoc, deleting, scoring, coaching, rooms>>

\* uploadCall without req.file: 400 and return
UploadNoFile ==
  /\ serverUp
  /\ requests < MaxRequests
  /\ requests' = requests + 1
  /\ response' = Response("uploadCall", Absent, 400, Absent)
  /\ UNCHANGED <<serverUp, db, pc, doc, loc, emitted, runs, writes, faults,
                 updateDoc, deleting, scoring, coaching, rooms>>

\* uploadCall with a file when Call.create rejects: the catch answers 500
UploadCallFails(c) ==
  /\ serverUp
  /\ requests < MaxRequests
  /\ requests' = requests + 1
  /\ pc[c] = "idle"
  /\ ~db[c].exists
  /\ faults < MaxFaults
  /\ faults' = faults + 1
  /\ response' = Response("uploadCall", Absent, 500, Absent)
  /\ UNCHANGED <<serverUp, db, pc, doc, loc, emitted, runs, writes, updateDoc,
                 deleting, scoring, coaching, rooms>>

\* updateCall: Call.findById resolves; 404 when there is no call, 403 when
\* the user may not update it, otherwise call.metadata is assigned and
\* call.save() is issued
UpdateCallFind(c) ==
  /\ serverUp
  /\ requests < MaxRequests
  /\ requests' = requests + 1
  /\ ~updateDoc[c].loaded
  /\ \E notes \in Notes, authorized \in BOOLEAN :
        IF ~db[c].exists
          THEN /\ response' = Response("updateCall", c, 404, Absent)
               /\ UNCHANGED updateDoc
          ELSE IF ~authorized
            THEN /\ response' = Response("updateCall", c, 403, Absent)
                 /\ UNCHANGED updateDoc
            ELSE /\ updateDoc' = Set(updateDoc, c,
                        AssignMetadata(Hydrate(db[c]), notes))
                 /\ UNCHANGED response
  /\ UNCHANGED <<serverUp, db, pc, doc, loc, emitted, runs, writes, faults,
                 deleting, scoring, coaching, rooms>>

\* an updateCall whose save writes the whole in-memory document
UpdateCallSaveWholeDocument(c) ==
  /\ serverUp
  /\ UNCHANGED requests
  /\ updateDoc[c].loaded
  /\ updateDoc' = Set(updateDoc, c, NoDoc)
  /\ IF db[c].exists
       THEN /\ db' = Set(db, c,
                   [db[c] EXCEPT !.status = updateDoc[c].status,
                                 !.transcript = updateDoc[c].transcript,
                                 !.analysis = updateDoc[c].analysis,
                                 !.processingHistory = updateDoc[c].processingHistory,
                                 !.metadata = updateDoc[c].metadata])
            /\ response' = Response("updateCall", c, 200, Absent)
       ELSE /\ response' = Response("updateCall", c, 500, Absent)
            /\ UNCHANGED db
  /\ UNCHANGED <<serverUp, pc, doc, loc, emitted, runs, writes, faults,
                 deleting, scoring, coaching, rooms>>

\* updateCall: `await call.save()` resolves and the handler answers 200, or
\* it rejects (the call was deleted meanwhile) and the catch answers 500
UpdateCallSave(c) ==
  /\ serverUp
  /\ UNCHANGED requests
  /\ updateDoc[c].loaded
  /\ updateDoc' = Set(updateDoc, c, NoDoc)
  /\ IF db[c].exists /\ ValidDoc(updateDoc[c])
       THEN /\ db' = Set(db, c, SaveDoc(db[c], updateDoc[c]))
            /\ response' = Response("updateCall", c, 200, Absent)
       ELSE /\ response' = Response("updateCall", c, 500, Absent)
            /\ UNCHANGED db
  /\ UNCHANGED <<serverUp, pc, doc, loc, emitted, runs, writes, faults,
                 deleting, scoring, coaching, rooms>>

\* deleteCall: Call.findById resolves; 404 / 403 as in updateCall, otherwise
\* the audio file is unlinked and Call.findByIdAndDelete is issued
DeleteCallFind(c) ==
  /\ serverUp
  /\ requests < MaxRequests
  /\ requests' = requests + 1
  /\ ~deleting[c]
  /\ \E authorized \in BOOLEAN :
        IF ~db[c].exists
          THEN /\ response' = Response("deleteCall", c, 404, Absent)
               /\ UNCHANGED deleting
          ELSE IF ~authorized
            THEN /\ response' = Response("deleteCall", c, 403, Absent)
                 /\ UNCHANGED deleting
            ELSE /\ deleting' = Set(deleting, c, TRUE)
                 /\ UNCHANGED response
  /\ UNCHANGED <<serverUp, db, pc, doc, loc, emitted, runs, writes, faults,
                 updateDoc, scoring, coaching, rooms>>

\* deleteCall: Call.findByIdAndDelete resolves and the handler answers 200
DeleteCallRemove(c) ==
  /\ serverUp
  /\ UNCHANGED requests
  /\ deleting[c]
  /\ deleting' = Set(deleting, c, FALSE)
  /\ db' = Set(db, c, NoRecord)
  /\ response' = Response("deleteCall", c, 200, Absent)
  /\ UNCHANGED <<serverUp, pc, doc, loc, emitted, runs, writes, faults,
                 updateDoc, scoring, coaching, rooms>>

\* req.user of a read request: the user who uploaded the call, another agent,
\* a supervisor, an admin
Users == {"owner", "agent", "supervisor", "admin"}

\* call.user.toString() === req.user.id ||
\* ['admin', 'supervisor'].includes(req.user.role)
MayAccess(user) == user = "owner" \/ user \in {"admin", "supervisor"}

\* the 403 of a read handler
NotAuthorized(handler, c, user) ==
  [Response(handler, c, 403, Absent) EXCEPT !.user = user]

\* getCall after Call.findById(...).populate(...) resolved with rec
GetCallResponse(c, rec, user) ==
  IF ~rec.exists THEN [Response("getCall", c, 404, Absent) EXCEPT !.user = user]
  ELSE IF ~MayAccess(user) THEN NotAuthorized("getCall", c, user)
  ELSE [Response("getCall", c, 200, rec.status) EXCEPT
          !.user = user,
          !.data = [transcript |-> rec.transcript, analysis |-> rec.analysis,
                    coachingPlan |-> rec.coachingPlan]]

\* getCallAnalysis after Call.findById resolved with rec
GetCallAnalysisResponse(c, rec, user) ==
  IF ~rec.exists
    THEN [Response("getCallAnalysis", c, 404, Absent) EXCEPT !.user = user]
  ELSE IF ~MayAccess(user) THEN NotAuthorized("getCallAnalysis", c, user)
  ELSE IF rec.status # "analyzed"
    THEN [Response("getCallAnalysis", c, 400, rec.status) EXCEPT !.user = user]
  ELSE [Response("getCallAnalysis", c, 200, rec.status) EXCEPT
          !.user = user,
          !.data = [NoData EXCEPT !.transcript = rec.transcript,
                                  !.analysis = rec.analysis]]

\* x ? JSON.parse(x) : []
ParseOrEmpty(text) == IF text = <<>> THEN <<>> ELSE JSONParse(text)

\* parsedCoachingPlan of getCoachingPlan
ParsedCoachingPlan(plan) ==
  [plan EXCEPT !.recommendations = ParseOrEmpty(@),
               !.resources = ParseOrEmpty(@),
               !.quiz = ParseOrEmpty(@)]

\* getCoachingPlan after Call.findById resolved with rec
GetCoachingPlanResponse(c, rec, user) ==
  IF ~rec.exists
    THEN [Response("getCoachingPlan", c, 404, Absent) EXCEPT !.user = user]
  ELSE IF ~MayAccess(user) THEN NotAuthorized("getCoachingPlan", c, user)
  ELSE IF ~rec.coachingPlan.generated
    THEN [Response("getCoachingPlan", c, 400, rec.status) EXCEPT !.user = user]
  ELSE [Response("getCoachingPlan", c, 200, rec.status) EXCEPT
          !.user = user,
          !.data = [NoData EXCEPT
                      !.analysis = rec.analysis,
                      !.coachingPlan = ParsedCoachingPlan(rec.coachingPlan)]]

\* a read handler: Call.findById resolves and the handler answers, or it
\* rejects and the catch answers 500
ReadRequest(handler, c, user, answer) ==
  /\ serverUp
  /\ requests < MaxRequests
  /\ requests' = requests + 1
  /\ \/ /\ response' = answer
        /\ UNCHANGED faults
     \/ /\ faults < MaxFaults
        /\ faults' = faults + 1
        /\ response' = [Response(handler, c, 500, Absent) EXCEPT !.user = user]
  /\ UNCHANGED <<serverUp, db, pc, doc, loc, emitted, runs, writes, updateDoc,
                 deleting, scoring, coaching, rooms>>

\* GET /api/calls/:id
GetCall(c) ==
  \E user \in Users :
    ReadRequest("getCall", c, user, GetCallResponse(c, db[c], user))

\* GET /api/calls/:id/analysis
GetCallAnalysis(c) ==
  \E user \in Users :
    ReadRequest("getCallAnalysis", c, user,
                GetCallAnalysisResponse(c, db[c], user))

\* GET /api/calls/:id/coaching
GetCoachingPlan(c) ==
  \E user \in Users :
    ReadRequest("getCoachingPlan", c, user,
                GetCoachingPlanResponse(c, db[c], user))

\* ------------------------------------------------------------ socket rooms
\* argument of a 'join-call-room' event for call c: the id itself, or the
\* object { callId } of the API documentation
JoinPayloads(c) ==
  {[kind |-> "string", callId |-> c], [kind |-> "object", callId |-> c]}

\* `${callId}` of the handler: String(payload)
TemplateString(payload) ==
  IF payload.kind = "object" THEN "[object Object]" ELSE payload.callId

\* `call-${text}`
RoomName(text) == <<"call-", text>>

\* the room processCallAsync emits to: callId is the ObjectId of the call,
\* whose string form is the id
CallRoom(c) == RoomName(c)

\* 'join-call-room' events handled so far
JoinCount ==
  LET RECURSIVE Count(_)
      Count(S) == IF S = {} THEN 0
                  ELSE LET s == CHOOSE x \in S : TRUE
                       IN Cardinality(rooms[s]) + Count(S \ {s})
  IN Count(Sockets)

\* socket.on('join-call-room', (callId) => socket.join(`call-${callId}`)):
\* any connected socket, any argument, no check of the user
JoinCallRoom(s, c) ==
  /\ serverUp
  /\ JoinCount < MaxJoins
  /\ \E payload \in JoinPayloads(c) :
        LET room == RoomName(TemplateString(payload))
        IN /\ \A j \in rooms[s] : j.room # room
           /\ rooms' = Set(rooms, s, rooms[s] \cup
                          {[payload |-> payload, room |-> room,
                            since |-> Len(emitted[c])]})
  /\ UNCHANGED <<serverUp, db, pc, doc, loc, emitted, runs, writes, faults,
                 updateDoc, deleting, response, requests, scoring, coaching>>

\* the events published for call c from the n-th on
EmittedSince(c, n) == SubSeq(emitted[c], n + 1, Len(emitted[c]))

\* the 'call-status-update' events of call c socket s has received:
\* io.to(room).emit reaches the sockets that are in the room
Delivered(s, c) ==
  LET joins == {j \in rooms[s] : j.room = CallRoom(c)}
  IN IF joins = {} THEN <<>>
       ELSE EmittedSince(c, (CHOOSE j \in joins : TRUE).since)

\* the fields of the record an event carries: transcript (line 466),
\* analysis (line 503), coachingPlan (line 586)
EventData(e) ==
  IF e.status = "transcribed" THEN {"transcript"}
  ELSE IF e.status = "analyzed" THEN {"analysis"}
  ELSE IF e.status = "completed" THEN {"coachingPlan"}
  ELSE {}

\* --------------------------------------------------------- scoring engine
\* A transcript is a list of words separated by single blanks; a word is
\* followed by a full stop or not.
Vocab == {"hello", "issue", "check"}
Tokens == [word : Vocab, stop : BOOLEAN]
Transcripts == UNION {[1..n -> Tokens] : n \in 0..MaxTokens}

\* customerServiceKeywords, as far as the vocabulary goes
CustomerServiceKeywords == {"issue"}

\* answer of the sentiment model for one sentence: the request fails (error
\* or timeout) or yields the POSITIVE score, in hundredths
SentimentAnswers ==
  {[ok |-> FALSE, positive |-> 0], [ok |-> TRUE, positive |-> 54],
   [ok |-> TRUE, positive |-> 100]}

\* answer of the toxicity model for one sentence: the request fails or
\* yields the five label scores, in hundredths
ToxicityAnswers ==
  {[ok |-> FALSE, toxic |-> 0, hate |-> 0, obscene |-> 0, threat |-> 0, insult |-> 0],
   [ok |-> TRUE, toxic |-> 0, hate |-> 0, obscene |-> 0, threat |-> 0, insult |-> 0],
   [ok |-> TRUE, toxic |-> 20, hate |-> 0, obscene |-> 5, threat |-> 0, insult |-> 40]}

\* positive: 0.7 and politeness: 0.8 of the fallbacks, in hundredths
FallbackPositive == 70
FallbackPoliteness == 80

RECURSIVE SumSeq(_)
SumSeq(q) == IF q = <<>> THEN 0 ELSE q[1] + SumSeq(Tail(q))

\* Math.max of a non-empty set of numbers
MathMax(S) == CHOOSE x \in S : \A y \in S : y <= x

\* Math.round(num / den) for num >= 0, den > 0: the nearest integer, halves
\* rounded up
MathRound(num, den) == (2 * num + den) \div (2 * den)

\* transcript.split(/[.!?]+/).filter(s => s.trim().length > 0): the list of
\* sentences, each the list of its words
RECURSIVE SplitSentences(_, _, _)
SplitSentences(t, i, current) ==
  IF i > Len(t)
    THEN IF current = <<>> THEN <<>> ELSE <<current>>
    ELSE IF t[i].stop
      THEN <<Append(current, t[i].word)>> \o SplitSentences(t, i + 1, <<>>)
      ELSE SplitSentences(t, i + 1, Append(current, t[i].word))

Sentences(t) == SplitSentences(t, 1, <<>>)

\* sentences.slice(0, 3)
FirstThree(q) == SubSeq(q, 1, IF Len(q) < 3 THEN Len(q) ELSE 3)

\* s.split(' ').length of the k-th sentence: every sentence after the first
\* starts with the blank that followed the full stop
SplitLength(sentences, k) == Len(sentences[k]) + (IF k > 1 THEN 1 ELSE 0)

\* transcript.toLowerCase().split(/\s+/): a word keeps its full stop; the
\* empty transcript splits into one empty word
Words(t) == IF t = <<>> THEN <<[word |-> "", stop |-> FALSE]>> ELSE t

\* analyzeSentiment that replaces only the failed sentences by the fallback
AnalyzeSentimentPartialFallback(sentences, answers) ==
  [i \in 1..Len(sentences) |->
     IF answers[i].ok THEN answers[i].positive ELSE FallbackPositive]

\* analyzeSentiment: the positive score of each sentence, or the fallback
\* for every sentence when a request fails
AnalyzeSentiment(sentences, answers) ==
  IF \E i \in 1..Len(sentences) : ~answers[i].ok
    THEN [i \in 1..Len(sentences) |-> FallbackPositive]
    ELSE [i \in 1..Len(sentences) |-> answers[i].positive]

\* analyzeToxicity: politeness = 1 - max of the five scores of each
\* sentence, or the fallback for every sentence when a request fails
AnalyzeToxicity(sentences, answers) ==
  IF \E i \in 1..Len(sentences) : ~answers[i].ok
    THEN [i \in 1..Len(sentences) |-> FallbackPoliteness]
    ELSE [i \in 1..Len(sentences) |->
            100 - MathMax({answers[i].toxic, answers[i].hate, answers[i].obscene,
                           answers[i].threat, answers[i].insult})]

\* calculateOverallSentiment / calculateOverallPoliteness:
\* Math.round(average * 100); the average of no score is NaN
CalculateOverall(scores) ==
  IF Len(scores) = 0 THEN NaN ELSE Num(MathRound(SumSeq(scores), Len(scores)))

\* analyzeClarity; every comparison with the NaN average of no sentence is
\* false
AnalyzeClarity(t) ==
  LET sentences == Sentences(t)
      n == Len(sentences)
      total == SumSeq([k \in 1..n |-> SplitLength(sentences, k)])
      afterLong == IF n > 0 /\ total > 20 * n THEN 80 - 10 ELSE 80
      afterShort == IF n > 0 /\ total < 5 * n THEN afterLong - 15 ELSE afterLong
      clarityScore == IF n < 3 THEN afterShort - 10 ELSE afterShort
  IN MathMax({0, IF clarityScore > 100 THEN 100 ELSE clarityScore})

\* analyzeEngagement
AnalyzeEngagement(t) ==
  LET words == Words(t)
      uniqueWords == {words[i] : i \in 1..Len(words)}
      afterRichness ==
        IF 10 * Cardinality(uniqueWords) > 6 * Len(words) THEN 70 + 15 ELSE 70
      afterFifty == IF Len(words) > 50 THEN afterRichness + 10 ELSE afterRichness
      engagementScore == IF Len(words) > 100 THEN afterFifty + 5 ELSE afterFifty
  IN IF engagementScore > 100 THEN 100 ELSE engagementScore

\* analyzeRelevance: a word counts when it equals a keyword, so not when a
\* full stop is attached to it
AnalyzeRelevance(t) ==
  LET words == Words(t)
      relevantWords ==
        {i \in 1..Len(words) :
           ~words[i].stop /\ words[i].word \in CustomerServiceKeywords}
  IN MathRound(100 * Cardinality(relevantWords), Len(words))

\* regular expression tests on the transcript, as far as the vocabulary goes
Mentions(t, patterns) == \E i \in 1..Len(t) : t[i].word \in patterns

\* 60 plus the bonus of every test that succeeds, at most 100
KeywordScore(bonuses) ==
  LET score == 60 + SumSeq(bonuses) IN IF score > 100 THEN 100 ELSE score

\* analyzeCallOpening: /hello|hi|good|thank you/, introduction, offer
AnalyzeCallOpening(t) ==
  KeywordScore(<<IF Mentions(t, {"hello"}) THEN 15 ELSE 0>>)

\* analyzeIssueUnderstanding: /issue|.../, /understand|see|look|check/
AnalyzeIssueUnderstanding(t) ==
  KeywordScore(<<IF Mentions(t, {"issue"}) THEN 20 ELSE 0,
                 IF Mentions(t, {"check"}) THEN 15 ELSE 0>>)

\* analyzeResolutionQuality: /follow|check|ensure|confirm/
AnalyzeResolutionQuality(t) ==
  KeywordScore(<<IF Mentions(t, {"check"}) THEN 5 ELSE 0>>)

\* Math.round of the mean of JavaScript numbers: NaN when one of them is
RoundedMean(values) ==
  IF \E i \in 1..Len(values) : values[i].nan
    THEN NaN
    ELSE Num(MathRound(SumSeq([i \in 1..Len(values) |-> values[i].v]),
                       Len(values)))

\* an overallScore averaged over sentiment, politeness and relevance only
OverallScoreOfThree(sentiment, politeness, clarity, engagement, relevance) ==
  RoundedMean(<<sentiment, politeness, relevance>>)

\* overallScore of analyzeCall
OverallScore(sentiment, politeness, clarity, engagement, relevance) ==
  RoundedMean(<<sentiment, politeness, clarity, engagement, relevance>>)

\* a csatScore that truncates the mean
CsatScoreTruncated(sentiment, politeness, relevance) ==
  IF sentiment.nan \/ politeness.nan \/ relevance.nan
    THEN NaN
    ELSE Num((sentiment.v + politeness.v + relevance.v) \div 3)

\* metrics.csatScore of analyzeCall
CsatScore(sentiment, politeness, relevance) ==
  RoundedMean(<<sentiment, politeness, relevance>>)

\* the three texts of each get*Feedback: score >= 85, score >= 70, otherwise
FeedbackTexts ==
  [callOpening |->
     <<"Excellent call opening with professional greeting and clear introduction",
       "Good call opening, could improve introduction clarity",
       "Call opening needs improvement - add greeting and clear introduction">>,
   issueUnderstanding |->
     <<"Excellent problem identification and understanding",
       "Good issue understanding, could improve clarification",
       "Issue understanding needs work - practice active listening">>,
   sentimentAnalysis |->
     <<"Excellent positive sentiment throughout the call",
       "Good sentiment, maintain positive tone",
       "Sentiment needs improvement - focus on positive language">>,
   politeness |->
     <<"Excellent politeness and professional tone",
       "Good politeness, maintain professional language",
       "Politeness needs improvement - avoid negative language">>,
   clarity |->
     <<"Excellent clarity and coherent communication",
       "Good clarity, could improve sentence structure",
       "Clarity needs improvement - use shorter, clearer sentences">>,
   engagement |->
     <<"Excellent engagement with rich vocabulary",
       "Good engagement, could expand vocabulary",
       "Engagement needs improvement - use more descriptive language">>,
   relevance |->
     <<"Excellent topic relevance throughout the call",
       "Good relevance, stay focused on customer needs",
       "Relevance needs improvement - stay on topic">>,
   csatScore |->
     <<"Excellent customer satisfaction potential",
       "Good customer satisfaction, maintain quality",
       "Customer satisfaction needs improvement">>,
   resolutionQuality |->
     <<"Excellent problem resolution and follow-up",
       "Good resolution, could improve follow-up",
       "Resolution quality needs improvement - provide clear solutions">>]

\* if (score >= 85) return ...; if (score >= 70) return ...; return ...: a
\* comparison with NaN is false
ScoreFeedback(metric, score) ==
  IF ~score.nan /\ score.v >= 85 THEN FeedbackTexts[metric][1]
  ELSE IF ~score.nan /\ score.v >= 70 THEN FeedbackTexts[metric][2]
  ELSE FeedbackTexts[metric][3]

\* getCSATFeedback: avgScore = (sentiment + politeness + relevance) / 3 is
\* compared unrounded, so avgScore >= 85 when the sum is at least 255
GetCSATFeedback(sentiment, politeness, relevance) ==
  LET nan == sentiment.nan \/ politeness.nan \/ relevance.nan
      sum == sentiment.v + politeness.v + relevance.v
  IN IF ~nan /\ sum >= 3 * 85 THEN FeedbackTexts.csatScore[1]
     ELSE IF ~nan /\ sum >= 3 * 70 THEN FeedbackTexts.csatScore[2]
     ELSE FeedbackTexts.csatScore[3]

\* analyzeCall(transcript) for a transcript that is a string, given the
\* answers of the two models for its first three sentences
AnalyzeCallResult(t, sentimentAnswers, toxicityAnswers) ==
  LET sentences == FirstThree(Sentences(t))
      overallSentiment ==
        CalculateOverall(AnalyzeSentiment(sentences, sentimentAnswers))
      overallPoliteness ==
        CalculateOverall(AnalyzeToxicity(sentences, toxicityAnswers))
      clarityScore == Num(AnalyzeClarity(t))
      engagementScore == Num(AnalyzeEngagement(t))
      relevanceScore == Num(AnalyzeRelevance(t))
  IN [overallScore |->
        OverallScore(overallSentiment, overallPoliteness, clarityScore,
                     engagementScore, relevanceScore),
      metrics |->
        [callOpening |-> Num(AnalyzeCallOpening(t)),
         issueUnderstanding |-> Num(AnalyzeIssueUnderstanding(t)),
         sentimentAnalysis |-> overallSentiment,
         politeness |-> overallPoliteness,
         clarity |-> clarityScore,
         engagement |-> engagementScore,
         relevance |-> relevanceScore,
         csatScore |-> CsatScore(overallSentiment, overallPoliteness,
                                 relevanceScore),
         resolutionQuality |-> Num(AnalyzeResolutionQuality(t))],
      feedback |->
        [callOpening |-> ScoreFeedback("callOpening", Num(AnalyzeCallOpening(t))),
         issueUnderstanding |->
           ScoreFeedback("issueUnderstanding", Num(AnalyzeIssueUnderstanding(t))),
         sentimentAnalysis |-> ScoreFeedback("sentimentAnalysis", overallSentiment),
         politeness |-> ScoreFeedback("politeness", overallPoliteness),
         clarity |-> ScoreFeedback("clarity", clarityScore),
         engagement |-> ScoreFeedback("engagement", engagementScore),
         relevance |-> ScoreFeedback("relevance", relevanceScore),
         csatScore |-> GetCSATFeedback(overallSentiment, overallPoliteness,
                                       relevanceScore),
         resolutionQuality |->
           ScoreFeedback("resolutionQuality", Num(AnalyzeResolutionQuality(t)))]]

\* a call of analyzeCall is about to be made: a transcript and, for each of
\* its first three sentences, the answer each model will give
InitAnalyze ==
  /\ InitServer
  /\ coaching = NoCoaching
  /\ \E t \in Transcripts :
       \E sentimentAnswers \in [1..Len(FirstThree(Sentences(t))) -> SentimentAnswers],
          toxicityAnswers \in [1..Len(FirstThree(Sentences(t))) -> ToxicityAnswers] :
         scoring = [phase |-> "called", transcript |-> t,
                    sentiment |-> sentimentAnswers,
                    toxicity |-> toxicityAnswers, result |-> NoAnalysis]

\* openaiService.analyzeCall(transcript) returns its analysis
AnalyzeCallReturns ==
  /\ scoring.phase = "called"
  /\ scoring' = [scoring EXCEPT
                   !.phase = "returned",
                   !.result = AnalyzeCallResult(scoring.transcript,
                                                scoring.sentiment,
                                                scoring.toxicity)]
  /\ UNCHANGED <<serverUp, db, pc, doc, loc, emitted, runs, writes, faults,
                 updateDoc, deleting, response, requests, coaching, rooms>>

\* -------------------------------------------------------- coaching engine
\* overallScore of the analysis handed to generateCoachingPlan: the range of
\* the schema
ScoreRange == 0..100

\* the analysis objects handed to generateCoachingPlan
CoachingAnalyses ==
  {[overallScore |-> s, nan |-> FALSE] : s \in ScoreRange}
    \cup {[overallScore |-> 0, nan |-> TRUE]}

\* a call of generateCoachingPlan is about to be made: an analysis and the
\* outcome the enrichment request will have
InitCoaching ==
  /\ InitServer
  /\ scoring = NoScoring
  /\ \E analysis \in CoachingAnalyses, enrichment \in Enrichments :
        coaching = [phase |-> "called", analysis |-> analysis,
                    enrichment |-> enrichment, raised |-> FALSE, plan |-> <<>>]

\* openaiService.generateCoachingPlan(analysis, transcript) returns or throws
GenerateCoachingPlanReturns ==
  /\ coaching.phase = "called"
  /\ LET returned ==
           GenerateCoachingPlanResult(coaching.analysis, coaching.enrichment)
     IN coaching' = [coaching EXCEPT
                       !.phase = "returned",
                       !.raised = returned.raised,
                       !.plan = IF returned.raised THEN <<>> ELSE returned.plan]
  /\ UNCHANGED <<serverUp, db, pc, doc, loc, emitted, runs, writes, faults,
                 updateDoc, deleting, response, requests, scoring, rooms>>

\* ------------------------------------------------------------ specification
\* the call ids in use
Calls == {"c1"}

\* the await-delimited segments of one processCallAsync run
PipelineStep(c) ==
  \/ FindCall(c)
  \/ HistUpload(c)
  \/ SaveTranscribing(c)
  \/ HistTranscribeStarted(c)
  \/ TranscribeAudio(c)
  \/ SaveTranscribed(c)
  \/ HistTranscribeCompleted(c)
  \/ SaveAnalyzing(c)
  \/ HistAnalyzeStarted(c)
  \/ AnalyzeCall(c)
  \/ SaveAnalyzed(c)
  \/ HistAnalyzeCompleted(c)
  \/ HistCoachingStarted(c)
  \/ GenerateCoachingPlan(c)
  \/ UpdateCoaching(c)
  \/ HistCoachingCompleted(c)
  \/ UpdateCompleted(c)
  \/ CatchFind(c)
  \/ CatchHist(c)

Step(c) ==
  \/ UploadCall(c)
  \/ ReInvoke(c)
  \/ PipelineStep(c)

Next ==
  \/ StartServer
  \/ \E c \in Calls : Step(c)

Spec == Init /\ [][Next]_vars

\* the run on an uploaded call together with the HTTP handlers that touch a
\* Call record
HandlerStep(c) ==
  \/ UploadCallFails(c)
  \/ UpdateCallFind(c)
  \/ UpdateCallSave(c)
  \/ DeleteCallFind(c)
  \/ DeleteCallRemove(c)

NextHttp ==
  \/ StartServer
  \/ UploadNoFile
  \/ \E c \in Calls : UploadCall(c) \/ PipelineStep(c) \/ HandlerStep(c)

SpecHttp == Init /\ [][NextHttp]_vars

\* runs and re-invoked runs on a call that updateCall requests edit meanwhile
NextUpdate ==
  \/ Next
  \/ \E c \in Calls : UpdateCallFind(c) \/ UpdateCallSave(c)

SpecUpdate == Init /\ [][NextUpdate]_vars

\* two uploads whose runs interleave at their awaits
NextTwo ==
  \/ StartServer
  \/ \E c \in CallIds : UploadCall(c) \/ PipelineStep(c)

SpecTwo == Init /\ [][NextTwo]_vars

\* one run and the read handlers
ReadStep(c) ==
  \/ GetCall(c)
  \/ GetCallAnalysis(c)
  \/ GetCoachingPlan(c)

NextRead ==
  \/ StartServer
  \/ \E c \in Calls : UploadCall(c) \/ PipelineStep(c) \/ ReadStep(c)

SpecRead == Init /\ [][NextRead]_vars

\* one run and the sockets that join rooms
NextSocket ==
  \/ StartServer
  \/ \E c \in Calls :
        \/ UploadCall(c)
        \/ PipelineStep(c)
        \/ \E s \in Sockets : JoinCallRoom(s, c)

SpecSocket == Init /\ [][NextSocket]_vars

\* one run and its clients: read requests and sockets
NextClient ==
  \/ NextSocket
  \/ \E c \in Calls : ReadStep(c)

SpecClient == Init /\ [][NextClient]_vars

\* one call of analyzeCall on a string, with the answers of the two models
NextAnalyze == AnalyzeCallReturns

SpecAnalyze == InitAnalyze /\ [][NextAnalyze]_vars

\* one call of generateCoachingPlan, with the outcome of its enrichment
\* request
NextCoaching == GenerateCoachingPlanReturns

SpecCoaching == InitCoaching /\ [][NextCoaching]_vars

\* ------------------------------------------------------------ properties
StageSteps == {"transcribe", "analyze", "coaching"}

StageErrors == {ErrTranscription, ErrAnalysis}

\* t is the immediate successor of s in the status order
Successor(s, t) ==
  \E i \in 1..6 : StatusEnum[i] = s /\ StatusEnum[i + 1] = t

\* number of history entries of a step with one of the given statuses
CountEntries(h, step, statuses) ==
  Cardinality({i \in 1..Len(h) : h[i].step = step /\ h[i].status \in statuses})

\* C1: in a run on a freshly uploaded call every change of the persisted
\* status goes to the immediate successor in the order uploaded ->
\* transcribing -> transcribed -> analyzing -> analyzed ->
\* generating-coaching -> completed, or to error.
StatusStepsForward_C1 ==
  [][\A c \in CallIds :
       (runs[c] = 1 /\ db[c].exists /\ db'[c].status # db[c].status)
         => (Successor(db[c].status, db'[c].status) \/ db'[c].status = "error")]_vars

\* C2: when a stage has thrown and the run has ended (no store operation
\* having failed for an external reason), the record has status error, its
\* error field carries the message, processingHistory has a failed entry
\* with the error, and an error event with the message was emitted.
FailureRecorded_C2 ==
  \A c \in CallIds :
    (pc[c] \in Ended /\ loc[c].error \in StageErrors /\ faults = 0)
      => /\ db[c].status = "error"
         /\ db[c].error.message = loc[c].error
         /\ \E i \in 1..Len(db[c].processingHistory) :
               /\ db[c].processingHistory[i].status = "failed"
               /\ db[c].processingHistory[i].error = loc[c].error
         /\ \E i \in 1..Len(emitted[c]) :
               /\ emitted[c][i].status = "error"
               /\ emitted[c][i].error = loc[c].error

\* C3: a run that has ended leaves the record in status completed or error,
\* never in an in-progress status.
RunEndsCompletedOrError_C3 ==
  \A c \in CallIds :
    (pc[c] \in Ended /\ db[c].exists /\ faults = 0)
      => db[c].status \in {"completed", "error"}

\* C4: the promise of processCallAsync never rejects, so the
\* unhandledRejection handler never exits the server because of a run.
NeverRejects_C4 ==
  \A c \in CallIds : pc[c] # "rejected" /\ loc[c].result # "rejected"

\* C5: when transcribeAudio fails in the run on a freshly uploaded call, the
\* record ends in status error and neither analysis nor coachingPlan is
\* populated.
TranscribeFailureToError_C5 ==
  \A c \in CallIds :
    (runs[c] = 1 /\ pc[c] \in Ended /\ loc[c].error = ErrTranscription
       /\ faults = 0)
      => /\ db[c].status = "error"
         /\ db[c].analysis = <<>>
         /\ db[c].coachingPlan = NoCoachingPlan

\* C6: while analyzeCall is pending the store holds this run's transcript and
\* the write of status transcribed has been made; while generateCoachingPlan
\* is pending the store holds this run's analysis and the write of status
\* analyzed has been made.
StagesSequential_C6 ==
  \A c \in CallIds :
    /\ pc[c] = "analyze" =>
         /\ db[c].transcript = loc[c].transcription
         /\ \E i \in 1..Len(writes[c]) : writes[c][i].status = "transcribed"
    /\ pc[c] = "coach" =>
         /\ db[c].analysis = loc[c].analysis
         /\ db[c].analysis # <<>>
         /\ \E i \in 1..Len(writes[c]) : writes[c][i].status = "analyzed"

\* C6 witness: generateCoachingPlan is pending in some run
CoachPending_C6 ==
  \E c \in CallIds : pc[c] = "coach" /\ loc[c].analysis # <<>>

\* C7: after the run on a freshly uploaded call in which all three stages
\* succeeded, the status is completed and processingHistory has exactly one
\* completed entry for each of transcribe, analyze and coaching.
OneCompletedPerStage_C7 ==
  \A c \in CallIds :
    (runs[c] = 1 /\ pc[c] = "done" /\ loc[c].result = "completed")
      => /\ db[c].status = "completed"
         /\ \A step \in StageSteps :
               CountEntries(db[c].processingHistory, step, {"completed"}) = 1

\* C7 witness: the first run of a call has completed
FirstRunCompleted_C7 ==
  \E c \in CallIds :
    runs[c] = 1 /\ pc[c] = "done" /\ loc[c].result = "completed"

\* C8: when the run on a freshly uploaded call has ended, every started
\* entry of a stage is matched by exactly one completed or failed entry of
\* the same step.
StagesBracketed_C8 ==
  \A c \in CallIds :
    (runs[c] = 1 /\ pc[c] \in Ended /\ faults = 0)
      => \A step \in StageSteps :
           CountEntries(db[c].processingHistory, step, {"started"})
             = CountEntries(db[c].processingHistory, step, {"completed", "failed"})

\* C9: after the first failed run of a call the persisted error.retryCount
\* is 1 (the previous value 0 plus one).
RetryCountIncrements_C9 ==
  \A c \in CallIds :
    (runs[c] = 1 /\ pc[c] \in Ended /\ loc[c].error \in StageErrors
       /\ faults = 0)
      => db[c].error.retryCount = 1

FullHistory ==
  <<[step |-> "upload", status |-> "completed", error |-> NoError],
    [step |-> "transcribe", status |-> "started", error |-> NoError],
    [step |-> "transcribe", status |-> "completed", error |-> NoError],
    [step |-> "analyze", status |-> "started", error |-> NoError],
    [step |-> "analyze", status |-> "completed", error |-> NoError],
    [step |-> "coaching", status |-> "started", error |-> NoError],
    [step |-> "coaching", status |-> "completed", error |-> NoError]>>

\* the record the run on a freshly uploaded call leaves when it executes
\* alone, given the outcomes of its own stages (its locals)
AloneRecord(l) ==
  IF l.result = "completed"
    THEN [NewCall EXCEPT
            !.status = "completed", !.transcript = l.transcription,
            !.analysis = l.analysis, !.coachingPlan = l.coachingPlan,
            !.processingHistory = FullHistory,
            !.performance = {"transcriptionTime", "analysisTime",
                             "processingTime", "coachingTime"}]
    ELSE IF l.error = ErrTranscription
      THEN [NewCall EXCEPT
              !.status = "transcribing",
              !.processingHistory = SubSeq(FullHistory, 1, 2)]
      ELSE [NewCall EXCEPT
              !.status = "analyzing", !.transcript = l.transcription,
              !.processingHistory = SubSeq(FullHistory, 1, 4),
              !.performance = {"transcriptionTime"}]

\* C11: when the runs on two different calls interleave, each run that has
\* ended (no store operation having failed) ended on account of its own
\* stages, and its record is the one the run leaves when it executes alone.
RunsIsolated_C11 ==
  \A c \in CallIds :
    (pc[c] \in Ended /\ faults = 0)
      => /\ loc[c].result \in {"completed", "rejected"}
         /\ db[c] = AloneRecord(loc[c])

\* the part of C11 that holds: a run that was not ended by the exit of the
\* process leaves the record of a lone run
OwnOutcomeIsolated ==
  \A c \in CallIds :
    (pc[c] \in {"done", "rejected"} /\ faults = 0)
      => db[c] = AloneRecord(loc[c])

\* a step changes the record of a call only when the run of that call moves
WritesOwnRecord ==
  [][\A c \in CallIds : db'[c] # db[c] => pc'[c] # pc[c]]_vars

\* h is a prefix of g
IsPrefix(h, g) == Len(h) <= Len(g) /\ SubSeq(g, 1, Len(h)) = h

\* C12: every step (a stage transition, the recording of a failure, a step
\* of a re-invoked run, the save of a concurrent updateCall) leaves the
\* previous processingHistory of a stored call as a prefix of the new one.
HistoryOnlyGrows_C12 ==
  [][\A c \in CallIds :
       db'[c].exists =>
         IsPrefix(db[c].processingHistory, db'[c].processingHistory)]_vars

\* C12 witness: an updateCall request that loaded the call before the run
\* appended further entries has saved, in a re-invoked run
UpdateSavedOverLongerHistory_C12 ==
  \E c \in CallIds :
    /\ runs[c] = 2
    /\ response = Response("updateCall", c, 200, Absent)
    /\ db[c].metadata.notes # Absent
    /\ Len(db[c].processingHistory) > 7

\* the paths of a record that processCallAsync writes
PipelineFields(rec) ==
  <<rec.status, rec.transcript, rec.analysis, rec.coachingPlan,
    rec.processingHistory>>

\* C13 as stated: while a run is in progress, a step that is not a step of
\* the run (an HTTP handler) leaves the record of the call as it is.
HandlersOnlyRead_C13 ==
  [][\A c \in CallIds :
       (pc[c] \in InFlight /\ pc'[c] = pc[c]) => db'[c] = db[c]]_vars

\* C13 amended: while a run is in progress, a step of an HTTP handler that
\* leaves the record in the store (the save of updateCall) changes none of
\* status, transcript, analysis, coachingPlan and processingHistory.
UpdateKeepsPipelineFields_C13 ==
  [][\A c \in CallIds :
       (pc[c] \in InFlight /\ pc'[c] = pc[c] /\ db'[c].exists)
         => PipelineFields(db'[c]) = PipelineFields(db[c])]_vars

\* C13 witness: the save of an updateCall has written its notes while the
\* run, which has stored a transcript already, is still in progress
UpdateSavedDuringRun_C13 ==
  \E c \in CallIds :
    /\ pc[c] \in InFlight
    /\ response = Response("updateCall", c, 200, Absent)
    /\ db[c].metadata.notes # Absent
    /\ db[c].transcript # Absent

\* C14: an upload request without a file is answered 400 and changes
\* nothing else: no record, no run, no notification.
NoFileNoEffect_C14 ==
  [][(requests' # requests /\ response'.handler = "uploadCall"
        /\ response'.code = 400)
       => UNCHANGED <<db, pc, doc, loc, emitted, runs, writes>>]_vars

\* C14 witness: an upload without a file has been answered 400 and no call
\* is stored or in processing
NoFileAnswered_C14 ==
  /\ response = Response("uploadCall", Absent, 400, Absent)
  /\ \A c \in CallIds : ~db[c].exists /\ pc[c] = "idle" /\ emitted[c] = <<>>

\* C15: the step that answers an upload 201 creates the record of that call
\* and of no other, starts exactly one run on it, which is left pending at
\* its first await, and the answer carries status uploaded.
UploadAccepted_C15 ==
  [][\A c \in CallIds :
       (response' # response /\ response'.handler = "uploadCall"
          /\ response'.code = 201 /\ response'.call = c)
         => /\ ~db[c].exists
            /\ db'[c] = NewCall
            /\ runs'[c] = runs[c] + 1
            /\ pc[c] = "idle"
            /\ pc'[c] = "find"
            /\ response'.status = "uploaded"
            /\ \A d \in CallIds \ {c} :
                  db'[d] = db[d] /\ runs'[d] = runs[d] /\ pc'[d] = pc[d]]_vars

\* C15 witness: a second upload has been answered 201 while the run of the
\* first is past its transcription
SecondUploadAnswered_C15 ==
  \E c, d \in CallIds :
    /\ c # d
    /\ response = Response("uploadCall", c, 201, "uploaded")
    /\ runs[c] = 1
    /\ db[d].status \in {"transcribed", "analyzing", "analyzed", "completed"}

\* C16: after the run on a freshly uploaded call in which every stage
\* succeeded, the events emitted to the call room are exactly uploaded,
\* transcribing, transcribed, analyzing, analyzed, generating-coaching,
\* completed, once each and in this order, with progress 0, 33, 66, 80, 90,
\* 95, 100.
NotificationsInOrder_C16 ==
  \A c \in CallIds :
    (runs[c] = 1 /\ pc[c] = "done" /\ loc[c].result = "completed")
      => emitted[c] =
           <<StatusUpdate("uploaded", <<0>>, NoError),
             StatusUpdate("transcribing", <<33>>, NoError),
             StatusUpdate("transcribed", <<66>>, NoError),
             StatusUpdate("analyzing", <<80>>, NoError),
             StatusUpdate("analyzed", <<90>>, NoError),
             StatusUpdate("generating-coaching", <<95>>, NoError),
             StatusUpdate("completed", <<100>>, NoError)>>

\* the part of C16 that holds: the statuses, once each and in order
NotificationStatusesInOrder ==
  \A c \in CallIds :
    (runs[c] = 1 /\ pc[c] = "done" /\ loc[c].result = "completed")
      => [i \in 1..Len(emitted[c]) |-> emitted[c][i].status] =
           <<"uploaded", "transcribing", "transcribed", "analyzing",
             "analyzed", "generating-coaching", "completed">>

\* the analysis returned by the call of analyzeCall
Returned == scoring.phase = "returned"

\* a JavaScript number that is an integer in [0, 100]
InRange(x) == ~x.nan /\ x.v \in 0..100

\* k is x rounded to the nearest integer, where x = sum / n
Nearest(k, sum, n) == 2 * sum - n < 2 * n * k /\ 2 * n * k <= 2 * sum + n

\* C17: the overallScore of a returned analysis is the mean of the
\* sentimentAnalysis, politeness, clarity, engagement and relevance of the
\* same analysis, rounded to the nearest integer (NaN when one of them is).
OverallIsRoundedMean_C17 ==
  Returned =>
    LET m == scoring.result.metrics
        five == <<m.sentimentAnalysis, m.politeness, m.clarity, m.engagement,
                  m.relevance>>
    IN IF \E i \in 1..5 : five[i].nan
         THEN scoring.result.overallScore.nan
         ELSE /\ ~scoring.result.overallScore.nan
              /\ Nearest(scoring.result.overallScore.v,
                         SumSeq([i \in 1..5 |-> five[i].v]), 5)

\* C17 witness: an analysis whose five metrics do not sum to a multiple of
\* five, so that the mean had to be rounded up
OverallRoundedUp_C17 ==
  /\ Returned
  /\ ~scoring.result.overallScore.nan
  /\ LET m == scoring.result.metrics
     IN (m.sentimentAnalysis.v + m.politeness.v + m.clarity.v
           + m.engagement.v + m.relevance.v) % 5 >= 3

\* C18: the csatScore of a returned analysis is the mean of the
\* sentimentAnalysis, politeness and relevance of the same analysis, rounded
\* to the nearest integer (NaN when one of them is).
CsatIsRoundedMean_C18 ==
  Returned =>
    LET m == scoring.result.metrics
    IN IF m.sentimentAnalysis.nan \/ m.politeness.nan \/ m.relevance.nan
         THEN m.csatScore.nan
         ELSE /\ ~m.csatScore.nan
              /\ Nearest(m.csatScore.v,
                         m.sentimentAnalysis.v + m.politeness.v + m.relevance.v, 3)

\* C18 witness: an analysis whose three metrics sum to two more than a
\* multiple of three, so that the mean had to be rounded up
CsatRoundedUp_C18 ==
  /\ Returned
  /\ ~scoring.result.metrics.csatScore.nan
  /\ LET m == scoring.result.metrics
     IN (m.sentimentAnalysis.v + m.politeness.v + m.relevance.v) % 3 = 2

\* C19: in every analysis returned for a string (a transcript without a
\* sentence and one of a single word included) each of the nine metrics and
\* the overallScore is a number in [0, 100].
ScoresInRange_C19 ==
  Returned =>
    LET m == scoring.result.metrics
    IN /\ InRange(scoring.result.overallScore)
       /\ \A name \in DOMAIN m : InRange(m[name])

\* the part of C19 that holds: a transcript with at least one sentence
ScoresInRangeWithSentence ==
  (Returned /\ Sentences(scoring.transcript) # <<>>) =>
    LET m == scoring.result.metrics
    IN /\ InRange(scoring.result.overallScore)
       /\ \A name \in DOMAIN m : InRange(m[name])

\* C20: when a request to the sentiment model fails, the returned analysis
\* has sentimentAnalysis 70; when a request to the toxicity model fails, it
\* has politeness 80; in both cases every metric and the overallScore are
\* numbers in [0, 100].
FallbackScores_C20 ==
  Returned =>
    LET m == scoring.result.metrics
        sentimentFailed ==
          \E i \in 1..Len(scoring.sentiment) : ~scoring.sentiment[i].ok
        toxicityFailed ==
          \E i \in 1..Len(scoring.toxicity) : ~scoring.toxicity[i].ok
    IN /\ sentimentFailed => m.sentimentAnalysis = Num(70)
       /\ toxicityFailed => m.politeness = Num(80)
       /\ (sentimentFailed \/ toxicityFailed)
            => /\ InRange(scoring.result.overallScore)
               /\ \A name \in DOMAIN m : InRange(m[name])

\* C20 witness: the sentiment request of the second sentence failed after
\* the first sentence scored 100, and the analysis has sentimentAnalysis 70
SecondSentenceFailed_C20 ==
  /\ Returned
  /\ Len(scoring.sentiment) >= 2
  /\ scoring.sentiment[1] = [ok |-> TRUE, positive |-> 100]
  /\ ~scoring.sentiment[2].ok
  /\ scoring.result.metrics.sentimentAnalysis = Num(70)

\* C21: generateCoachingPlan returns the same plan whether the enrichment
\* request succeeds, fails or times out; the plan has at least 1
\* recommendation, 1 resource and 2 quiz items, and the call does not raise
\* (the three lists are arrays).
SamePlanEveryOutcome_C21 ==
  coaching.phase = "returned" =>
    /\ ~coaching.raised
    /\ \A e \in Enrichments :
          GenerateCoachingPlanResult(coaching.analysis, e).plan = coaching.plan
    /\ Len(coaching.plan.recommendations) >= 1
    /\ Len(coaching.plan.resources) >= 1
    /\ Len(coaching.plan.quiz) >= 2

\* a plan was returned after the enrichment request timed out
PlanAfterTimeout_C21 ==
  /\ coaching.phase = "returned"
  /\ coaching.enrichment = "timeout"
  /\ ~coaching.raised
  /\ Len(coaching.plan.quiz) = 2

\* C25: the feedback of the plan returned by generateCoachingPlan is the tier
\* of analysis.overallScore for every overallScore in 0..100, 0 included:
\* the Excellent text from 85 up, the Good text in 70..84, the needs
\* improvement text below 70.
FeedbackTierOfScore_C25 ==
  (coaching.phase = "returned" /\ ~coaching.analysis.nan) =>
    coaching.plan.feedback =
      IF coaching.analysis.overallScore >= 85
        THEN "Excellent performance! Keep up the great work."
        ELSE IF coaching.analysis.overallScore >= 70
          THEN "Good performance with specific areas for improvement."
          ELSE "Performance needs improvement. Focus on the recommendations below."

\* the tiers hold for every overallScore other than 0
FeedbackTierOfPositiveScore ==
  (coaching.phase = "returned" /\ ~coaching.analysis.nan
     /\ coaching.analysis.overallScore > 0) =>
    coaching.plan.feedback =
      IF coaching.analysis.overallScore >= 85
        THEN "Excellent performance! Keep up the great work."
        ELSE IF coaching.analysis.overallScore >= 70
          THEN "Good performance with specific areas for improvement."
          ELSE "Performance needs improvement. Focus on the recommendations below."

\* C22: getCallAnalysis answers success with the analysis for every call
\* whose analysis has been written, whatever the status ('completed'
\* included), and a call whose analysis is retrievable stays retrievable as
\* the pipeline advances.
Retrievable(c) == GetCallAnalysisResponse(c, db[c], "owner").code = 200

AnalysisRetrievable_C22 ==
  [][\A c \in Calls :
       /\ (requests' = requests + 1 /\ response'.handler = "getCallAnalysis"
             /\ response'.call = c /\ response'.code \notin {403, 500}
             /\ db[c].exists /\ db[c].analysis # <<>>)
            => (response'.code = 200 /\ response'.data.analysis = db[c].analysis)
       /\ (Retrievable(c) /\ db'[c].exists) => Retrievable(c)']_vars

\* the analysis is served while the status is 'analyzed'
AnalysisServedWhileAnalyzed ==
  /\ response.handler = "getCallAnalysis"
  /\ response.code = 200
  /\ response.status = "analyzed"
  /\ response.data.analysis # <<>>

\* C23: a client that joined a call's room as documented, emitting
\* 'join-call-room' with { callId }, receives every 'call-status-update'
\* published for that call after the join.
DocumentedJoinReceives_C23 ==
  \A s \in Sockets : \A j \in rooms[s] :
    j.payload.kind = "object" =>
      Delivered(s, j.payload.callId) = EmittedSince(j.payload.callId, j.since)

\* a client that joined with the id itself receives every later event
PlainJoinReceives ==
  \A s \in Sockets : \A j \in rooms[s] :
    j.payload.kind = "string" =>
      Delivered(s, j.payload.callId) = EmittedSince(j.payload.callId, j.since)

\* C24: for each of the nine metrics the feedback string of an analyzeCall
\* result is the band of the metric value of the same result (excellent
\* from 85, good in 70..84, needs improvement otherwise); in particular
\* feedback.csatScore is the band of metrics.csatScore.
FeedbackIsBandOfMetric_C24 ==
  Returned =>
    \A metric \in DOMAIN FeedbackTexts :
      scoring.result.feedback[metric] =
        ScoreFeedback(metric, scoring.result.metrics[metric])

\* the feedback of every metric other than csatScore is the band of its value
FeedbackIsBandExceptCsat ==
  Returned =>
    \A metric \in DOMAIN FeedbackTexts \ {"csatScore"} :
      scoring.result.feedback[metric] =
        ScoreFeedback(metric, scoring.result.metrics[metric])

\* C26: a record whose persisted status is 'completed' has a transcript, an
\* analysis and a coachingPlan with generated = true whose recommendations,
\* resources and quiz decode to the lists generateCoachingPlan returned; the
\* save of the in-memory document after the coaching updateOne erases none
\* of them.
CompletedHasEverything_C26 ==
  \A c \in Calls :
    (db[c].exists /\ db[c].status = "completed") =>
      /\ db[c].transcript \notin {Absent, NoText, ""}
      /\ db[c].analysis # <<>>
      /\ db[c].coachingPlan.generated
      /\ \E e \in Enrichments :
            LET plan == GenerateCoachingPlanResult(db[c].analysis[1], e).plan
                stored == ParsedCoachingPlan(db[c].coachingPlan)
            IN /\ stored.recommendations = plan.recommendations
               /\ stored.resources = plan.resources
               /\ stored.quiz = plan.quiz
               /\ stored.feedback = plan.feedback

\* a run has completed after the save that follows the coaching updateOne
RunCompleted_C26 ==
  \E c \in Calls :
    /\ pc[c] = "done"
    /\ db[c].status = "completed"
    /\ \E i \in 1..Len(writes[c]) : \E k \in 1..Len(writes[c]) :
          /\ i < k
          /\ writes[c][i].op = "updateOne"
          /\ writes[c][i].paths = {"coachingPlan"}
          /\ writes[c][k].op = "save"

\* C27: coachingPlan.generated is true only on records whose status is
\* 'completed', and getCoachingPlan never serves a plan for a call whose
\* status is not 'completed'.
PlanOnlyWhenCompleted_C27 ==
  /\ \A c \in Calls :
        (db[c].exists /\ db[c].coachingPlan.generated)
          => db[c].status = "completed"
  /\ (response.handler = "getCoachingPlan" /\ response.code = 200)
        => response.status = "completed"

\* getCoachingPlan served the plan of a call in status 'analyzed'
PlanServedWhileAnalyzed ==
  /\ response.handler = "getCoachingPlan"
  /\ response.code = 200
  /\ response.status = "analyzed"
  /\ response.data.coachingPlan.generated

\* a plan is served only once the coaching updateOne has been issued
PlanServedAfterCoachingUpdate ==
  (response.handler = "getCoachingPlan" /\ response.code = 200) =>
    /\ response.data.coachingPlan.generated
    /\ \E i \in 1..Len(writes[response.call]) :
          writes[response.call][i].paths = {"coachingPlan"}

\* C28: whenever a 'call-status-update' with a status other than 'error' is
\* published for a call, the persisted status of the record had been set to
\* that status before: by Call.create for 'uploaded', by a write of the run
\* otherwise.
PublishedStatusWasPersisted_C28 ==
  \A c \in CallIds : \A i \in 1..Len(emitted[c]) :
    emitted[c][i].status # "error" =>
      \/ emitted[c][i].status = NewCall.status
      \/ \E k \in 1..Len(writes[c]) : writes[c][k].status = emitted[c][i].status

\* every published status other than 'error' and 'generating-coaching' had
\* been persisted
PublishedStatusWasPersistedExceptCoaching ==
  \A c \in CallIds : \A i \in 1..Len(emitted[c]) :
    emitted[c][i].status \notin {"error", "generating-coaching"} =>
      \/ emitted[c][i].status = NewCall.status
      \/ \E k \in 1..Len(writes[c]) : writes[c][k].status = emitted[c][i].status

\* C29: transcript, analysis and coaching plan of a call are disclosed only
\* to its owner, an admin or a supervisor: a read request of anyone else is
\* answered without them, and no event carrying them is delivered to the
\* socket of another user.
DisclosedOnlyToAuthorized_C29 ==
  /\ (response.user \in Users /\ ~MayAccess(response.user))
        => (response.code # 200 /\ response.data = NoData)
  /\ \A c \in Calls : \A i \in 1..Len(Delivered("other", c)) :
        EventData(Delivered("other", c)[i]) = {}

\* the read handlers disclose nothing to a user who may not access the call
ReadsDiscloseOnlyToAuthorized ==
  (response.user \in Users /\ ~MayAccess(response.user))
    => (response.code # 200 /\ response.data = NoData)

\* a read request of another agent was answered 403
OtherAgentRefused ==
  /\ response.user = "agent"
  /\ response.code = 403
  /\ db[response.call].analysis # <<>>

\* C30: an updateCall that succeeds changes only the metadata fields that the
\* request supplied: metadata.priority and every metadata field not supplied
\* keep their previous value, and so do status, transcript, analysis,
\* coachingPlan, processingHistory, error and performance.
UpdateChangesOnlySupplied_C30 ==
  [][\A c \in Calls :
       (updateDoc[c].loaded /\ response' = Response("updateCall", c, 200, Absent)
          /\ response' # response)
         => /\ PipelineFields(db'[c]) = PipelineFields(db[c])
            /\ db'[c].error = db[c].error
            /\ db'[c].performance = db[c].performance
            /\ db'[c].metadata.priority = db[c].metadata.priority
            /\ db'[c].metadata.notes \in
                  {db[c].metadata.notes} \cup (Notes \ {Absent})]_vars

\* an updateCall that succeeds changes nothing outside metadata
UpdateChangesOnlyMetadata ==
  [][\A c \in Calls :
       (updateDoc[c].loaded /\ response' = Response("updateCall", c, 200, Absent)
          /\ response' # response)
         => /\ PipelineFields(db'[c]) = PipelineFields(db[c])
            /\ db'[c].error = db[c].error
            /\ db'[c].performance = db[c].performance
            /\ db'[c].metadata.notes \in
                  {db[c].metadata.notes} \cup (Notes \ {Absent})]_vars

====
